---- MODULE Spec2Model ----
(***************************************************************************)
(* The ad history database table of brave_ads                              *)
(* (components/brave_ads/core/internal/history/ad_history_database_table.cc)*)
(* as a state machine: callers submit Save / Get* / PurgeExpired, each     *)
(* builds one mojom transaction, the database engine runs submitted        *)
(* transactions one at a time in any order and invokes the completion.     *)
(***************************************************************************)
EXTENDS Integers, Sequences, FiniteSets, TLC

VARIABLES
    batch_size_,   \* AdHistory::batch_size_
    table,         \* rows of table ad_history, in rowid (insertion) order
    pending,       \* transactions handed to the engine and not yet run
    ncalls,        \* number of calls made so far (the next call is ncalls + 1)
    partial,       \* per Save call: rows committed so far while fewer than all
    saved,         \* the one list saved with success on the empty table
    delivered,     \* the completion invoked by the last step (op "none" if none)
    completions,   \* per call: how many times its callback has been run
    schema,        \* the tables and indexes of the database
    migration,     \* the Create or Migrate of the last step (op "none" if none)
    creative_ads,  \* the list handed to the priority functions
    buckets,       \* what SortCreativeAdsIntoBucketsByPriority returned
    highest,       \* what HighestPriorityCreativeAds returned
    returned       \* the priority functions that have returned

schema_vars == <<schema, migration>>

priority_vars == <<creative_ads, buckets, highest, returned>>

history_vars ==
    <<batch_size_, table, pending, ncalls, partial, saved, delivered,
      completions>>

vars == <<history_vars, schema_vars, priority_vars>>

----------------------------------------------------------------------------
\* Bounds of the model.

\* created_at values (microseconds since the Windows epoch) are 1..MaxTime.
MaxTime == 3
\* Longest record list handed to Save.
MaxLen == 2
\* Number of calls in one behaviour.
MaxCalls == 3
\* Number of callers that may have a call in flight at a time, where callers
\* do not wait for each other.
MaxCallers == 3
\* batch_size_ is drawn from 1..MaxBatch and the default.
MaxBatch == 1

\* Longest list of the runs that look at the batches only.
MaxRecords == 120
\* Priorities of candidates are -1..MaxPriority.
MaxPriority == 2
\* Longest list of candidates.
MaxAds == 5

\* Program constants.
kDefaultBatchSize == 50
kColumnCount == 12

kTableName == "ad_history"

Times == 1..MaxTime

----------------------------------------------------------------------------
\* Enumerations and their string forms.

\* mojom::AdType members used here and their canonical names.
AdTypes == {"kUndefined", "kNotificationAd"}

AdTypeToString(type) ==
    IF type = "kNotificationAd" THEN "ad_notification" ELSE ""

\* Strict lookup: an unknown string gives kUndefined.
ToAdType(value) ==
    IF value = "ad_notification" THEN "kNotificationAd" ELSE "kUndefined"

\* mojom::ConfirmationType members used here.
ConfirmationTypes ==
    {"kUndefined", "kClicked", "kDismissed", "kViewedImpression",
     "kServedImpression"}

ConfirmationTypeToString(confirmation_type) ==
    CASE confirmation_type = "kClicked" -> "click"
      [] confirmation_type = "kDismissed" -> "dismiss"
      [] confirmation_type = "kViewedImpression" -> "view"
      [] confirmation_type = "kServedImpression" -> "served"
      [] OTHER -> ""

ToConfirmationType(value) ==
    CASE value = "click" -> "kClicked"
      [] value = "dismiss" -> "kDismissed"
      [] value = "view" -> "kViewedImpression"
      [] value = "served" -> "kServedImpression"
      [] OTHER -> "kUndefined"

\* base::Time is a count of microseconds since the Windows epoch.
ToChromeTimestampFromTime(time) == time.us

ToTimeFromChromeTimestamp(timestamp) == [us |-> timestamp]

\* GURL(spec): a well-formed spec is kept, anything else is an invalid, empty
\* URL.
WellFormedUrls == {"https://brave.com/"}

GURL(url_string) ==
    IF url_string \in WellFormedUrls
    THEN [is_valid |-> TRUE, spec |-> url_string]
    ELSE [is_valid |-> FALSE, spec |-> ""]

\* AdHistoryItemInfo::IsValid
IsValid(ad_history_item) ==
    /\ ad_history_item.type # "kUndefined"
    /\ ad_history_item.confirmation_type # "kUndefined"
    /\ ad_history_item.placement_id # ""
    /\ ad_history_item.creative_instance_id # ""
    /\ ad_history_item.creative_set_id # ""
    /\ ad_history_item.campaign_id # ""
    /\ ad_history_item.advertiser_id # ""
    /\ ad_history_item.segment # ""
    /\ ad_history_item.title # ""
    /\ ad_history_item.description # ""
    /\ ad_history_item.target_url.is_valid

----------------------------------------------------------------------------
\* Binding records to a statement and reading them back from a row.

\* The result column types every SELECT of this table declares.
BindColumnTypes ==
    <<"kInt64", "kString", "kString", "kString", "kString", "kString",
      "kString", "kString", "kString", "kString", "kString", "kString">>

\* The twelve values BindColumns binds for one valid record, in bind order.
BoundValues(ad_history_item) ==
    <<ToChromeTimestampFromTime(ad_history_item.created_at),
      AdTypeToString(ad_history_item.type),
      ConfirmationTypeToString(ad_history_item.confirmation_type),
      ad_history_item.placement_id,
      ad_history_item.creative_instance_id,
      ad_history_item.creative_set_id,
      ad_history_item.campaign_id,
      ad_history_item.advertiser_id,
      ad_history_item.segment,
      ad_history_item.title,
      ad_history_item.description,
      ad_history_item.target_url.spec>>

\* BindColumnInt64 / BindColumnString called with index, index + 1, ...
BindAt(index, values) ==
    [k \in 1..Len(values) |-> [index |-> index + k - 1, value |-> values[k]]]

\* One pass of the loop of BindColumns, for record i: loop is the loop's
\* local state (index, row_count) and the bindings made so far.
BindColumnsStep(ad_history, i, loop) ==
    IF ~IsValid(ad_history[i])
    THEN loop
    ELSE [index |-> loop.index + kColumnCount,
          row_count |-> loop.row_count + 1,
          bindings |-> loop.bindings
                       \o BindAt(loop.index, BoundValues(ad_history[i]))]

\* The passes for records lo..hi, in order.  The range is split in halves and
\* the first half is evaluated before the second is entered, which keeps the
\* evaluation shallow; index never decreases, so the test changes nothing.
RECURSIVE BindColumnsLoop(_, _, _, _)
BindColumnsLoop(ad_history, lo, hi, loop) ==
    IF lo > hi THEN loop
    ELSE IF lo = hi THEN BindColumnsStep(ad_history, lo, loop)
    ELSE LET mid == (lo + hi) \div 2
             first == BindColumnsLoop(ad_history, lo, mid, loop)
         IN  IF first.index < loop.index THEN first
             ELSE BindColumnsLoop(ad_history, mid + 1, hi, first)

\* A BindColumns that counts a record before it checks it.
BindColumnsCountingInvalid(ad_history) ==
    [BindColumnsLoop(ad_history, 1, Len(ad_history),
                     [index |-> 0, row_count |-> 0, bindings |-> <<>>])
        EXCEPT !.row_count = Len(ad_history)]

\* BindColumns: the row count it returns and the bindings it leaves in the
\* statement.
BindColumns(ad_history) ==
    BindColumnsLoop(ad_history, 1, Len(ad_history),
                    [index |-> 0, row_count |-> 0, bindings |-> <<>>])

\* A FromMojomRow that reads campaign_id and creative_set_id from each
\* other's column.
FromMojomRowSwappingColumns(mojom_row) ==
    [created_at |-> ToTimeFromChromeTimestamp(mojom_row[1]),
     type |-> ToAdType(mojom_row[2]),
     confirmation_type |-> ToConfirmationType(mojom_row[3]),
     placement_id |-> mojom_row[4],
     creative_instance_id |-> mojom_row[5],
     creative_set_id |-> mojom_row[7],
     campaign_id |-> mojom_row[6],
     advertiser_id |-> mojom_row[8],
     segment |-> mojom_row[9],
     title |-> mojom_row[10],
     description |-> mojom_row[11],
     target_url |-> GURL(mojom_row[12])]

\* FromMojomRow: column i of the row is row[i + 1].
FromMojomRow(mojom_row) ==
    [created_at |-> ToTimeFromChromeTimestamp(mojom_row[1]),
     type |-> ToAdType(mojom_row[2]),
     confirmation_type |-> ToConfirmationType(mojom_row[3]),
     placement_id |-> mojom_row[4],
     creative_instance_id |-> mojom_row[5],
     creative_set_id |-> mojom_row[6],
     campaign_id |-> mojom_row[7],
     advertiser_id |-> mojom_row[8],
     segment |-> mojom_row[9],
     title |-> mojom_row[10],
     description |-> mojom_row[11],
     target_url |-> GURL(mojom_row[12])]

\* The loop of GetCallback over the rows of a successful result: the valid
\* records of rows lo..hi, in order (split in halves to keep the evaluation
\* shallow).
RECURSIVE DecodeValidRows(_, _, _)
DecodeValidRows(rows, lo, hi) ==
    IF lo > hi THEN <<>>
    ELSE IF lo = hi
         THEN LET ad_history_item == FromMojomRow(rows[lo])
              IN  IF ~IsValid(ad_history_item) THEN <<>>
                  ELSE <<ad_history_item>>
    ELSE LET mid == (lo + hi) \div 2
         IN  DecodeValidRows(rows, lo, mid) \o DecodeValidRows(rows, mid + 1, hi)

\* A GetCallback that reports an empty successful result as a failure.
GetCallbackEmptyIsNullopt(mojom_statement_result) ==
    IF \/ mojom_statement_result.is_null
       \/ mojom_statement_result.result_code # "kSuccess"
       \/ mojom_statement_result.rows = <<>>
    THEN [has_value |-> FALSE, value |-> <<>>]
    ELSE [has_value |-> TRUE,
          value |-> DecodeValidRows(mojom_statement_result.rows, 1,
                                   Len(mojom_statement_result.rows))]

\* A GetCallback that forgets the validity check.
DecodeAllRows(rows) == [k \in 1..Len(rows) |-> FromMojomRow(rows[k])]

GetCallbackKeepingInvalid(mojom_statement_result) ==
    IF \/ mojom_statement_result.is_null
       \/ mojom_statement_result.result_code # "kSuccess"
    THEN [has_value |-> FALSE, value |-> <<>>]
    ELSE [has_value |-> TRUE,
          value |-> DecodeAllRows(mojom_statement_result.rows)]

\* GetCallback: the optional list handed to the GetAdHistoryCallback.
GetCallback(mojom_statement_result) ==
    IF \/ mojom_statement_result.is_null
       \/ mojom_statement_result.result_code # "kSuccess"
    THEN [has_value |-> FALSE, value |-> <<>>]
    ELSE [has_value |-> TRUE,
          value |-> DecodeValidRows(mojom_statement_result.rows, 1,
                                   Len(mojom_statement_result.rows))]

\* A GetCallback without the return after its first Run: a failed result
\* goes on to the Run at its end.
GetCallbackRunsFallingThrough(mojom_statement_result) ==
    IF \/ mojom_statement_result.is_null
       \/ mojom_statement_result.result_code # "kSuccess"
    THEN <<GetCallback(mojom_statement_result),
           [has_value |-> TRUE, value |-> <<>>]>>
    ELSE <<GetCallback(mojom_statement_result)>>

\* GetCallback: what it runs the GetAdHistoryCallback with, run by run.  It
\* returns with the Run of a failed result, and else runs the callback at
\* its end.
GetCallbackRuns(mojom_statement_result) ==
    <<GetCallback(mojom_statement_result)>>

\* RunTransaction's ResultCallback: success iff the engine answered kSuccess.
ResultCallback(mojom_statement_result) ==
    /\ ~mojom_statement_result.is_null
    /\ mojom_statement_result.result_code = "kSuccess"

----------------------------------------------------------------------------
\* Building statements and transactions.  The text of a statement is kept as
\* a record of its parts: the numbers base::NumberToString writes into the
\* text are kept as the numbers the engine reads back from it.

\* SplitVector: consecutive chunks of chunk_size elements, the last one
\* shorter when the length is no multiple of chunk_size.
SplitVector(elements, chunk_size) ==
    [b \in 1..((Len(elements) + chunk_size - 1) \div chunk_size) |->
        SubSeq(elements, chunk_size * (b - 1) + 1,
               IF chunk_size * b < Len(elements) THEN chunk_size * b
               ELSE Len(elements))]

\* BuildBindColumnPlaceholders: row_count tuples of column_count placeholders.
BuildBindColumnPlaceholders(column_count, row_count) ==
    [tuples |-> row_count, columns |-> column_count]

\* BuildInsertSql: the statement text it returns and the bindings BindColumns
\* left in the statement.
BuildInsertSql(ad_history) ==
    LET bound == BindColumns(ad_history)
    IN  [sql |-> [verb |-> "INSERT", table_name |-> kTableName,
                  values |-> BuildBindColumnPlaceholders(kColumnCount,
                                                         bound.row_count)],
         bindings |-> bound.bindings]

\* AdHistory::Insert: the transaction with the batch's statement appended.
Insert(mojom_transaction, ad_history) ==
    IF ad_history = <<>>
    THEN mojom_transaction
    ELSE LET built == BuildInsertSql(ad_history)
         IN  [statements |->
                Append(mojom_transaction.statements,
                       [operation_type |-> "kRun", sql |-> built.sql,
                        bindings |-> built.bindings,
                        bind_column_types |-> <<>>])]

\* The loop of Save over batches lo..hi, in order (in halves, the first
\* evaluated before the second is entered; a transaction never shrinks).
RECURSIVE InsertBatches(_, _, _, _)
InsertBatches(mojom_transaction, batches, lo, hi) ==
    IF lo > hi THEN mojom_transaction
    ELSE IF lo = hi THEN Insert(mojom_transaction, batches[lo])
    ELSE LET mid == (lo + hi) \div 2
             first == InsertBatches(mojom_transaction, batches, lo, mid)
         IN  IF Len(first.statements) < Len(mojom_transaction.statements)
             THEN first
             ELSE InsertBatches(first, batches, mid + 1, hi)

\* A Save that runs one transaction per batch.
SaveTransactionPerBatch(ad_history, batch_size) ==
    LET batches == SplitVector(ad_history, batch_size)
    IN  [b \in 1..Len(batches) |->
            Insert([statements |-> <<>>], batches[b])]

\* A Save that inserts only the first batch.
SaveFirstBatchOnly(ad_history, batch_size) ==
    IF ad_history = <<>> THEN <<>>
    ELSE <<Insert([statements |-> <<>>],
                  Head(SplitVector(ad_history, batch_size)))>>

\* A Save that opens its transaction before it looks at the list.
SaveEmptyTransaction(ad_history, batch_size) ==
    LET batches == SplitVector(ad_history, batch_size)
    IN  <<InsertBatches([statements |-> <<>>], batches, 1, Len(batches))>>

\* A Save that replaces the stored history by the list it is given.
SaveReplacingHistory(ad_history, batch_size) ==
    IF ad_history = <<>> THEN <<>>
    ELSE LET batches == SplitVector(ad_history, batch_size)
             clear == [operation_type |-> "kRun",
                       sql |-> [verb |-> "DELETE created_at <=",
                                table_name |-> kTableName,
                                cutoff |-> MaxTime],
                       bindings |-> <<>>,
                       bind_column_types |-> <<>>]
         IN  <<InsertBatches([statements |-> <<clear>>], batches, 1,
                             Len(batches))>>

\* AdHistory::Save: the transactions it hands to RunTransaction, none for an
\* empty list (the completion is then run at once with success).
SaveTransactions(ad_history, batch_size) ==
    IF ad_history = <<>> THEN <<>>
    ELSE LET batches == SplitVector(ad_history, batch_size)
         IN  <<InsertBatches([statements |-> <<>>], batches, 1,
                             Len(batches))>>

\* A range select that leaves the bounds out.
GetForDateRangeExclusive(from_time, to_time) ==
    [statements |-> <<
        [operation_type |-> "kStep",
         sql |-> [verb |-> "SELECT created_at BETWEEN",
                  table_name |-> kTableName,
                  lower |-> ToChromeTimestampFromTime(from_time) + 1,
                  upper |-> ToChromeTimestampFromTime(to_time) - 1],
         bindings |-> <<>>,
         bind_column_types |-> BindColumnTypes]>>]

\* AdHistory::GetForDateRange: the transaction it hands to RunDBTransaction.
GetForDateRangeTransaction(from_time, to_time) ==
    [statements |-> <<
        [operation_type |-> "kStep",
         sql |-> [verb |-> "SELECT created_at BETWEEN",
                  table_name |-> kTableName,
                  lower |-> ToChromeTimestampFromTime(from_time),
                  upper |-> ToChromeTimestampFromTime(to_time)],
         bindings |-> <<>>,
         bind_column_types |-> BindColumnTypes]>>]

\* AdHistory::GetHighestRankedPlacementsForDateRange: its transaction.
GetHighestRankedPlacementsForDateRangeTransaction(from_time, to_time) ==
    [statements |-> <<
        [operation_type |-> "kStep",
         sql |-> [verb |-> "SELECT FilteredAdHistory",
                  table_name |-> kTableName,
                  lower |-> ToChromeTimestampFromTime(from_time),
                  upper |-> ToChromeTimestampFromTime(to_time)],
         bindings |-> <<>>,
         bind_column_types |-> BindColumnTypes]>>]

\* AdHistory::GetForCreativeInstanceId: its transaction.
GetForCreativeInstanceIdTransaction(creative_instance_id) ==
    [statements |-> <<
        [operation_type |-> "kStep",
         sql |-> [verb |-> "SELECT creative_instance_id =",
                  table_name |-> kTableName,
                  creative_instance_id |-> creative_instance_id],
         bindings |-> <<>>,
         bind_column_types |-> BindColumnTypes]>>]

\* AdHistory::PurgeExpired: its transaction; now is base::Time::Now() and
\* retention_period is kAdHistoryRetentionPeriod.Get(), both read at the call.
PurgeExpiredTransaction(now, retention_period) ==
    [statements |-> <<
        [operation_type |-> "kRun",
         sql |-> [verb |-> "DELETE created_at <=",
                  table_name |-> kTableName,
                  cutoff |-> ToChromeTimestampFromTime(
                                 [us |-> now.us - retention_period])],
         bindings |-> <<>>,
         bind_column_types |-> <<>>]>>]

----------------------------------------------------------------------------
\* The schema: Create and Migrate append their statements to a transaction
\* of the caller, which may hold statements of other tables already.

\* The columns of CREATE TABLE ad_history.
TableColumns ==
    <<"id", "created_at", "type", "confirmation_type", "placement_id",
      "creative_instance_id", "creative_set_id", "campaign_id",
      "advertiser_id", "segment", "title", "description", "target_url">>

\* Execute: appends a statement that runs the SQL as it is.
Execute(mojom_transaction, sql) ==
    [mojom_transaction EXCEPT
        !.statements = Append(@, [operation_type |-> "kExecute",
                                   sql |-> sql])]

\* CreateTableIndex: appends CREATE INDEX IF NOT EXISTS on the columns.
CreateTableIndex(mojom_transaction, table_name, columns) ==
    Execute(mojom_transaction,
            [verb |-> "CREATE INDEX IF NOT EXISTS",
             table_name |-> table_name, columns |-> columns])

\* MigrateToV42: CREATE TABLE ad_history and its four indexes.
MigrateToV42(mojom_transaction) ==
    LET created == Execute(mojom_transaction,
                           [verb |-> "CREATE TABLE",
                            table_name |-> "ad_history",
                            columns |-> TableColumns])
        by_created_at == CreateTableIndex(created, "ad_history",
                                          <<"created_at">>)
        by_confirmation_type == CreateTableIndex(by_created_at, "ad_history",
                                                 <<"confirmation_type">>)
        by_placement_id == CreateTableIndex(by_confirmation_type,
                                            "ad_history", <<"placement_id">>)
    IN  CreateTableIndex(by_placement_id, "ad_history",
                         <<"creative_instance_id">>)

\* AdHistory::Create: CREATE TABLE ad_history and its four indexes.
CreateStatements(mojom_transaction) ==
    LET created == Execute(mojom_transaction,
                           [verb |-> "CREATE TABLE",
                            table_name |-> "ad_history",
                            columns |-> TableColumns])
        by_created_at == CreateTableIndex(created, kTableName,
                                          <<"created_at">>)
        by_confirmation_type == CreateTableIndex(by_created_at, kTableName,
                                                 <<"confirmation_type">>)
        by_placement_id == CreateTableIndex(by_confirmation_type, kTableName,
                                            <<"placement_id">>)
    IN  CreateTableIndex(by_placement_id, kTableName,
                         <<"creative_instance_id">>)

\* A Migrate that takes every version for the one it knows.
MigrateAnyVersion(mojom_transaction, to_version) ==
    MigrateToV42(mojom_transaction)

\* AdHistory::Migrate: the switch on to_version has the one case 42.
MigrateStatements(mojom_transaction, to_version) ==
    IF to_version = 42 THEN MigrateToV42(mojom_transaction)
    ELSE mojom_transaction

----------------------------------------------------------------------------
\* What the statements mean: the SQL of the source, over the rows of the
\* table.  A row is the tuple of its twelve columns, created_at first.

\* created_at BETWEEN lower AND upper
RowsBetween(rows, lower, upper) ==
    SelectSeq(rows, LAMBDA row : row[1] >= lower /\ row[1] <= upper)

\* CASE confirmation_type WHEN 'click' THEN 1 WHEN 'dismiss' THEN 2
\* WHEN 'view' THEN 3 ELSE 0 END AS priority
Priority(row) ==
    CASE row[3] = "click" -> 1
      [] row[3] = "dismiss" -> 2
      [] row[3] = "view" -> 3
      [] OTHER -> 0

\* PrioritizedAdHistory: the rows of the date range (each with Priority).
PrioritizedAdHistory(rows, lower, upper) == RowsBetween(rows, lower, upper)

\* The priorities MIN(priority) ranges over for one row of
\* PrioritizedAdHistory; MIN of no row is NULL.
OtherPriorities(prioritized, row) ==
    {Priority(prioritized[k]) : k \in
        {j \in 1..Len(prioritized) :
            /\ prioritized[j][4] = row[4]
            /\ Priority(prioritized[j]) > 0}}

Minimum(S) == CHOOSE m \in S : \A n \in S : m <= n

\* FilteredAdHistory: priority = (SELECT MIN(priority) ...); a comparison
\* with NULL keeps no row.
FilteredAdHistory(prioritized) ==
    SelectSeq(prioritized,
              LAMBDA row :
                  /\ OtherPriorities(prioritized, row) # {}
                  /\ Priority(row) = Minimum(OtherPriorities(prioritized, row)))

\* A DELETE that spares the rows created at the cutoff itself.
DeleteExpiredBeforeCutoff(rows, cutoff) ==
    SelectSeq(rows, LAMBDA row : row[1] >= cutoff)

\* DELETE FROM ad_history WHERE created_at <= cutoff
DeleteExpired(rows, cutoff) == SelectSeq(rows, LAMBDA row : row[1] > cutoff)

\* WHERE creative_instance_id = '...'
RowsForCreativeInstanceId(rows, creative_instance_id) ==
    SelectSeq(rows, LAMBDA row : row[5] = creative_instance_id)

Reverse(seq) == [k \in 1..Len(seq) |-> seq[Len(seq) + 1 - k]]

\* ORDER BY created_at DESC.  SQL leaves the order of rows with equal
\* created_at open; the engine gives them in rowid order when it sorts and in
\* reverse rowid order when it walks the created_at index backwards.
RECURSIVE InsertByCreatedAtDesc(_, _)
InsertByCreatedAtDesc(sorted, row) ==
    IF sorted = <<>> THEN <<row>>
    ELSE IF Head(sorted)[1] >= row[1]
         THEN <<Head(sorted)>> \o InsertByCreatedAtDesc(Tail(sorted), row)
         ELSE <<row>> \o sorted

RECURSIVE SortByCreatedAtDesc(_)
SortByCreatedAtDesc(rows) ==
    IF rows = <<>> THEN <<>>
    ELSE InsertByCreatedAtDesc(
             SortByCreatedAtDesc(SubSeq(rows, 1, Len(rows) - 1)),
             rows[Len(rows)])

TieOrders == {"rowid", "reverse rowid"}

OrderByCreatedAtDesc(rows, tie_order) ==
    IF tie_order = "rowid" THEN SortByCreatedAtDesc(rows)
    ELSE SortByCreatedAtDesc(Reverse(rows))

\* The rows an INSERT statement adds: tuple k takes the values bound at
\* indices columns * (k - 1) .. columns * k - 1.
BoundValue(bindings, index) ==
    IF index + 1 <= Len(bindings) /\ bindings[index + 1].index = index
    THEN bindings[index + 1].value
    ELSE bindings[CHOOSE k \in 1..Len(bindings) :
                      bindings[k].index = index].value

InsertedRows(mojom_statement) ==
    [k \in 1..mojom_statement.sql.values.tuples |->
        [c \in 1..mojom_statement.sql.values.columns |->
            BoundValue(mojom_statement.bindings,
                       mojom_statement.sql.values.columns * (k - 1) + c - 1)]]

\* The engine prepares a statement only if it is well formed: an INSERT has
\* at least one tuple of values and exactly one value bound to each of its
\* placeholders.
CanPrepare(mojom_statement) ==
    mojom_statement.sql.verb = "INSERT" =>
        LET n == mojom_statement.sql.values.tuples
                 * mojom_statement.sql.values.columns
        IN  /\ mojom_statement.sql.values.tuples >= 1
            /\ Len(mojom_statement.bindings) = n
            /\ {mojom_statement.bindings[k].index :
                    k \in 1..Len(mojom_statement.bindings)} = 0..(n - 1)

\* A kRun statement's effect on the rows.
RunStatement(mojom_statement, rows) ==
    CASE mojom_statement.sql.verb = "INSERT" ->
            rows \o InsertedRows(mojom_statement)
      [] mojom_statement.sql.verb = "DELETE created_at <=" ->
            DeleteExpired(rows, mojom_statement.sql.cutoff)
      [] OTHER -> rows

\* The rows of GetForDateRange's SELECT.
StepForDateRange(rows, lower, upper, tie_order) ==
    OrderByCreatedAtDesc(RowsBetween(rows, lower, upper), tie_order)

\* A best-of-group select whose MIN also ranges over priority 0.
StepHighestRankedCountingZero(rows, lower, upper, tie_order) ==
    LET prioritized == PrioritizedAdHistory(rows, lower, upper)
        Least(row) == Minimum({Priority(prioritized[k]) : k \in
                         {j \in 1..Len(prioritized) :
                             prioritized[j][4] = row[4]}})
    IN  OrderByCreatedAtDesc(
            SelectSeq(prioritized, LAMBDA row : Priority(row) = Least(row)),
            tie_order)

\* The rows of GetHighestRankedPlacementsForDateRange's SELECT.
StepHighestRanked(rows, lower, upper, tie_order) ==
    OrderByCreatedAtDesc(
        FilteredAdHistory(PrioritizedAdHistory(rows, lower, upper)),
        tie_order)

\* The rows of GetForCreativeInstanceId's SELECT (no ORDER BY).
StepForCreativeInstanceId(rows, creative_instance_id, tie_order) ==
    IF tie_order = "rowid"
    THEN RowsForCreativeInstanceId(rows, creative_instance_id)
    ELSE Reverse(RowsForCreativeInstanceId(rows, creative_instance_id))

\* A kStep statement's result rows.
StepStatement(mojom_statement, rows, tie_order) ==
    CASE mojom_statement.sql.verb = "SELECT created_at BETWEEN" ->
            StepForDateRange(rows, mojom_statement.sql.lower,
                             mojom_statement.sql.upper, tie_order)
      [] mojom_statement.sql.verb = "SELECT FilteredAdHistory" ->
            StepHighestRanked(rows, mojom_statement.sql.lower,
                              mojom_statement.sql.upper, tie_order)
      [] mojom_statement.sql.verb = "SELECT creative_instance_id =" ->
            StepForCreativeInstanceId(rows,
                mojom_statement.sql.creative_instance_id, tie_order)
      [] OTHER -> <<>>

\* One statement on the working copy of the rows; run is the state of the
\* run so far.  A statement that cannot be prepared ends the run.
RunOne(mojom_statement, run, tie_order) ==
    IF ~run.ok THEN run
    ELSE IF ~CanPrepare(mojom_statement)
    THEN [ok |-> FALSE, rows |-> run.rows, result_rows |-> <<>>]
    ELSE IF mojom_statement.operation_type = "kRun"
    THEN [run EXCEPT !.rows = RunStatement(mojom_statement, run.rows)]
    ELSE [run EXCEPT !.result_rows =
                        StepStatement(mojom_statement, run.rows, tie_order)]

\* Statements lo..hi of a transaction, in order (in halves, the first
\* evaluated before the second is entered); a failed statement ends the run.
RECURSIVE RunStatements(_, _, _, _, _)
RunStatements(statements, lo, hi, run, tie_order) ==
    IF lo > hi THEN run
    ELSE IF lo = hi THEN RunOne(statements[lo], run, tie_order)
    ELSE LET mid == (lo + hi) \div 2
             first == RunStatements(statements, lo, mid, run, tie_order)
         IN  IF ~first.ok THEN first
             ELSE RunStatements(statements, mid + 1, hi, first, tie_order)

\* What the engine may do to a transaction besides running it: answer
\* nothing at all, or fail.
EngineFaults == {"none", "no result", "failure"}

\* The ways a run can go: the order of ties matters to a run that succeeds.
EngineOutcomes ==
    {<<"none", tie_order>> : tie_order \in TieOrders}
    \cup {<<fault, "rowid">> : fault \in EngineFaults \ {"none"}}

\* The engine runs a transaction atomically: the rows afterwards and the
\* result handed to the callback.  Any failure rolls every statement back.
RunDBTransaction(mojom_transaction, rows, fault, tie_order) ==
    LET run == RunStatements(mojom_transaction.statements, 1,
                             Len(mojom_transaction.statements),
                             [ok |-> TRUE, rows |-> rows, result_rows |-> <<>>],
                             tie_order)
    IN  CASE fault = "no result" ->
                [rows |-> rows,
                 result |-> [is_null |-> TRUE, result_code |-> "kFailure",
                             rows |-> <<>>]]
          [] fault = "failure" \/ ~run.ok ->
                [rows |-> rows,
                 result |-> [is_null |-> FALSE, result_code |-> "kFailure",
                             rows |-> <<>>]]
          [] OTHER ->
                [rows |-> run.rows,
                 result |-> [is_null |-> FALSE, result_code |-> "kSuccess",
                             rows |-> run.result_rows]]

\* The database without a table.
NoSchema == [tables |-> {}, indexes |-> {}]

HasTable(db_schema, table_name) ==
    \E t \in db_schema.tables : t.name = table_name

\* A kExecute statement's effect on the schema and on the rows of
\* ad_history.  CREATE TABLE fails on a table that exists, CREATE INDEX
\* fails on a table that does not; IF NOT EXISTS and IF EXISTS make a
\* statement that finds its work done succeed without effect.
ExecuteStatement(mojom_statement, db) ==
    LET sql == mojom_statement.sql
    IN  CASE sql.verb = "CREATE TABLE" ->
                IF HasTable(db.schema, sql.table_name)
                THEN [db EXCEPT !.ok = FALSE]
                ELSE [db EXCEPT
                         !.schema.tables =
                             @ \cup {[name |-> sql.table_name,
                                      columns |-> sql.columns]},
                         !.rows = IF sql.table_name = kTableName THEN <<>>
                                  ELSE @]
          [] sql.verb = "CREATE INDEX IF NOT EXISTS" ->
                IF ~HasTable(db.schema, sql.table_name)
                THEN [db EXCEPT !.ok = FALSE]
                ELSE [db EXCEPT
                         !.schema.indexes =
                             @ \cup {[table_name |-> sql.table_name,
                                      columns |-> sql.columns]}]
          [] sql.verb = "DROP TABLE IF EXISTS" ->
                [db EXCEPT
                    !.schema.tables =
                        {t \in @ : t.name # sql.table_name},
                    !.schema.indexes =
                        {i \in @ : i.table_name # sql.table_name}]
          [] OTHER -> [db EXCEPT !.ok = FALSE]

RECURSIVE ExecuteStatements(_, _, _)
ExecuteStatements(statements, k, db) ==
    IF k > Len(statements) \/ ~db.ok THEN db
    ELSE ExecuteStatements(statements, k + 1,
                           ExecuteStatement(statements[k], db))

\* The engine runs a transaction of kExecute statements atomically: a
\* failed statement rolls the schema and the rows back.
RunSchemaTransaction(mojom_transaction, db_schema, rows) ==
    LET db == ExecuteStatements(mojom_transaction.statements, 1,
                                [ok |-> TRUE, schema |-> db_schema,
                                 rows |-> rows])
    IN  IF db.ok THEN [success |-> TRUE, schema |-> db.schema,
                       rows |-> db.rows]
        ELSE [success |-> FALSE, schema |-> db_schema, rows |-> rows]

----------------------------------------------------------------------------
\* Priority buckets (serving/eligible_ads/priority/priority.h).  A
\* base::flat_map is kept as the sequence of its entries in ascending order
\* of their keys.

\* The position of a key in a flat_map, 0 if it has none.
FlatMapFind(flat_map, key) ==
    IF \E k \in 1..Len(flat_map) : flat_map[k].priority = key
    THEN CHOOSE k \in 1..Len(flat_map) : flat_map[k].priority = key
    ELSE 0

\* flat_map::operator[]: the map with an entry for the key, a new entry
\* being empty and placed after the entries of smaller keys.
FlatMapSubscript(flat_map, key) ==
    IF FlatMapFind(flat_map, key) # 0 THEN flat_map
    ELSE LET smaller == SelectSeq(flat_map, LAMBDA e : e.priority < key)
             greater == SelectSeq(flat_map, LAMBDA e : e.priority > key)
         IN  smaller \o <<[priority |-> key, creative_ads |-> <<>>]>>
                     \o greater

\* One turn of the loop of SortCreativeAdsIntoBucketsByPriority.
SortIntoBucket(flat_map, creative_ad) ==
    IF creative_ad.priority = 0 THEN flat_map
    ELSE LET with_key == FlatMapSubscript(flat_map, creative_ad.priority)
             k == FlatMapFind(with_key, creative_ad.priority)
         IN  [with_key EXCEPT ![k].creative_ads = Append(@, creative_ad)]

RECURSIVE SortIntoBuckets(_, _, _)
SortIntoBuckets(creative_ads_list, k, flat_map) ==
    IF k > Len(creative_ads_list) THEN flat_map
    ELSE SortIntoBuckets(creative_ads_list, k + 1,
                         SortIntoBucket(flat_map, creative_ads_list[k]))

\* A sort that puts the ads of priority 0 in a bucket as well.
SortCreativeAdsKeepingZero(creative_ads_list) ==
    LET Keep(flat_map, creative_ad) ==
            LET with_key == FlatMapSubscript(flat_map, creative_ad.priority)
                k == FlatMapFind(with_key, creative_ad.priority)
            IN  [with_key EXCEPT ![k].creative_ads = Append(@, creative_ad)]
        F[k \in 0..Len(creative_ads_list)] ==
            IF k = 0 THEN <<>> ELSE Keep(F[k - 1], creative_ads_list[k])
    IN  F[Len(creative_ads_list)]

\* SortCreativeAdsIntoBucketsByPriority
SortCreativeAdsIntoBucketsByPriority(creative_ads_list) ==
    SortIntoBuckets(creative_ads_list, 1, <<>>)

\* A selection of the bucket of the greatest key.
LowestPriorityCreativeAds(creative_ads_list) ==
    LET flat_map == SortCreativeAdsIntoBucketsByPriority(creative_ads_list)
    IN  IF flat_map = <<>> THEN <<>>
        ELSE flat_map[Len(flat_map)].creative_ads

\* HighestPriorityCreativeAds: the bucket at cbegin(), if there is one.
HighestPriorityCreativeAds(creative_ads_list) ==
    LET flat_map == SortCreativeAdsIntoBucketsByPriority(creative_ads_list)
    IN  IF flat_map = <<>> THEN <<>>
        ELSE flat_map[1].creative_ads

----------------------------------------------------------------------------
\* The inputs of the calls.

\* A record of the ad events pipeline; an empty placement_id makes it
\* invalid.
Item(created_at, confirmation_type, placement_id, creative_instance_id) ==
    [created_at |-> [us |-> created_at],
     type |-> "kNotificationAd",
     confirmation_type |-> confirmation_type,
     placement_id |-> placement_id,
     creative_instance_id |-> creative_instance_id,
     creative_set_id |-> "creative-set",
     campaign_id |-> "campaign",
     advertiser_id |-> "advertiser",
     segment |-> "segment",
     title |-> "title",
     description |-> "description",
     target_url |-> GURL("https://brave.com/")]

\* The records callers pass to Save: a click, two views and a served event,
\* over two placements and all times, and one invalid record.
AdHistoryItems ==
    {Item(1, "kClicked", "p1", "c1"),
     Item(2, "kViewedImpression", "p1", "c1"),
     Item(MaxTime, "kViewedImpression", "p1", "c2"),
     Item(2, "kServedImpression", "p2", "c2"),
     Item(2, "kViewedImpression", "", "c1")}

AdHistoryLists == UNION {[1..n -> AdHistoryItems] : n \in 0..MaxLen}

\* The lists and ranges of the callers that run concurrently.
ShortItems ==
    {Item(1, "kClicked", "p1", "c1"),
     Item(MaxTime, "kViewedImpression", "p1", "c1")}

ShortLists == UNION {[1..n -> ShortItems] : n \in 0..MaxLen}

\* Lists of up to MaxRecords valid records, the k-th created at time k.
LongLists ==
    {[k \in 1..n |-> Item(k, "kViewedImpression", "p1", "c1")] :
        n \in 1..MaxRecords}

Ranges == Times \X Times

ShortRanges == {<<1, MaxTime>>}

CreativeInstanceIds == {"c1", "c2"}

\* base::Time::Now() and kAdHistoryRetentionPeriod.Get() as PurgeExpired
\* reads them.
Nows == {MaxTime + 1}
RetentionPeriods == {1, 2}

BatchSizes == (1..MaxBatch) \cup {kDefaultBatchSize}

\* A row as an earlier writer left it: it decodes to a record without title.
LegacyRow ==
    <<2, "ad_notification", "dismiss", "p1", "c1", "creative-set", "campaign",
      "advertiser", "segment", "", "description", "https://brave.com/">>

\* The table as the database file holds it when the process starts.
InitialTables == {<<>>, <<LegacyRow>>}

\* Versions the schema coordinator may ask a migration to.
Versions == {41, 42, 43}

\* The transaction handed to Create and Migrate: empty, or with a statement
\* of another table.
IncomingTransactions ==
    {[statements |-> <<>>],
     [statements |->
         <<[operation_type |-> "kExecute",
            sql |-> [verb |-> "DROP TABLE IF EXISTS",
                     table_name |-> "ad_events_obsolete",
                     columns |-> <<>>]]>>]}

\* The schema Create leaves in a database without tables.
CreatedSchema ==
    RunSchemaTransaction(CreateStatements([statements |-> <<>>]), NoSchema,
                         <<>>).schema

NoMigration ==
    [op |-> "none", to_version |-> 0, incoming |-> [statements |-> <<>>],
     transaction |-> [statements |-> <<>>], success |-> FALSE,
     schema_before |-> NoSchema, rows_before |-> <<>>]

\* Candidates of the priority functions: priority is an int.
Priorities == -1..MaxPriority

CreativeAds ==
    {[creative_instance_id |-> "a", priority |-> priority] :
        priority \in Priorities}
    \cup {[creative_instance_id |-> "b", priority |-> 1]}

CreativeAdLists == UNION {[1..n -> CreativeAds] : n \in 0..MaxAds}

NoArgs ==
    [ad_history |-> <<>>, from_time |-> [us |-> 0], to_time |-> [us |-> 0],
     creative_instance_id |-> "", now |-> [us |-> 0], retention_period |-> 0]

NoResult == [is_null |-> TRUE, result_code |-> "kFailure", rows |-> <<>>]

NoDelivery ==
    [op |-> "none", call |-> 0, args |-> NoArgs, by_engine |-> FALSE,
     success |-> FALSE, ad_history |-> [has_value |-> FALSE, value |-> <<>>],
     result |-> NoResult,
     fault |-> "none", before |-> <<>>]

GetOps ==
    {"GetForDateRange", "GetHighestRankedPlacementsForDateRange",
     "GetForCreativeInstanceId"}

----------------------------------------------------------------------------
\* The state machine.

\* The history of the table, as far as it is one successful Save on the
\* empty table: nothing yet, that one Save's list, or anything more.
NothingSaved == [history |-> "empty", list |-> <<>>]
MoreThanSaved == [history |-> "more", list |-> <<>>]

AfterSave(ad_history) ==
    IF saved.history = "empty"
    THEN [history |-> "once", list |-> ad_history]
    ELSE MoreThanSaved

Init ==
    /\ batch_size_ \in BatchSizes
    /\ table \in InitialTables
    /\ pending = {}
    /\ ncalls = 0
    /\ partial = [c \in 1..MaxCalls |-> 0]
    /\ saved = IF table = <<>> THEN NothingSaved ELSE MoreThanSaved
    /\ delivered = NoDelivery
    /\ completions = [c \in 1..MaxCalls |-> 0]
    /\ schema = CreatedSchema
    /\ migration = NoMigration
    /\ creative_ads = <<>>
    /\ buckets = <<>>
    /\ highest = <<>>
    /\ returned = {}

\* A call is made while the budget of calls allows and fewer than callers
\* calls are in flight.
CanCall(callers) ==
    /\ ncalls < MaxCalls
    /\ Cardinality({p.call : p \in pending}) < callers

\* The transactions of one call, handed to the engine.
Submit(op, args, transactions) ==
    pending' = pending \cup
        {[call |-> ncalls + 1, part |-> k, op |-> op, args |-> args,
          transaction |-> transactions[k]] : k \in 1..Len(transactions)}

\* AdHistory::Save(ad_history, callback)
Save(callers, lists) ==
    \E ad_history \in lists :
        LET args == [NoArgs EXCEPT !.ad_history = ad_history]
            transactions == SaveTransactions(ad_history, batch_size_)
        IN  /\ CanCall(callers)
            /\ ncalls' = ncalls + 1
            /\ Submit("Save", args, transactions)
            /\ delivered' =
                 IF transactions = <<>>
                 THEN [NoDelivery EXCEPT !.op = "Save", !.call = ncalls + 1,
                                         !.args = args, !.success = TRUE,
                                         !.before = table]
                 ELSE NoDelivery
            /\ saved' = IF transactions = <<>> THEN AfterSave(ad_history)
                         ELSE saved
            /\ completions' =
                 IF transactions = <<>>
                 THEN [completions EXCEPT ![ncalls + 1] = @ + 1]
                 ELSE completions
            /\ UNCHANGED <<batch_size_, table, partial>>
            /\ migration' = NoMigration
            /\ UNCHANGED <<schema, priority_vars>>

\* AdHistory::GetForDateRange(from_time, to_time, callback)
GetForDateRange(callers, ranges) ==
    \E range \in ranges :
        LET args == [NoArgs EXCEPT !.from_time = [us |-> range[1]],
                                   !.to_time = [us |-> range[2]]]
        IN  /\ CanCall(callers)
            /\ ncalls' = ncalls + 1
            /\ Submit("GetForDateRange", args,
                      <<GetForDateRangeTransaction(args.from_time,
                                                   args.to_time)>>)
            /\ delivered' = NoDelivery
            /\ UNCHANGED <<batch_size_, table, partial, saved, completions>>
            /\ migration' = NoMigration
            /\ UNCHANGED <<schema, priority_vars>>

\* AdHistory::GetHighestRankedPlacementsForDateRange(from_time, to_time,
\* callback)
GetHighestRankedPlacementsForDateRange(callers, ranges) ==
    \E range \in ranges :
        LET args == [NoArgs EXCEPT !.from_time = [us |-> range[1]],
                                   !.to_time = [us |-> range[2]]]
        IN  /\ CanCall(callers)
            /\ ncalls' = ncalls + 1
            /\ Submit("GetHighestRankedPlacementsForDateRange", args,
                      <<GetHighestRankedPlacementsForDateRangeTransaction(
                            args.from_time, args.to_time)>>)
            /\ delivered' = NoDelivery
            /\ UNCHANGED <<batch_size_, table, partial, saved, completions>>
            /\ migration' = NoMigration
            /\ UNCHANGED <<schema, priority_vars>>

\* AdHistory::GetForCreativeInstanceId(creative_instance_id, callback)
GetForCreativeInstanceId(callers, ids) ==
    \E creative_instance_id \in ids :
        LET args == [NoArgs EXCEPT
                        !.creative_instance_id = creative_instance_id]
        IN  /\ CanCall(callers)
            /\ ncalls' = ncalls + 1
            /\ Submit("GetForCreativeInstanceId", args,
                      <<GetForCreativeInstanceIdTransaction(
                            creative_instance_id)>>)
            /\ delivered' = NoDelivery
            /\ UNCHANGED <<batch_size_, table, partial, saved, completions>>
            /\ migration' = NoMigration
            /\ UNCHANGED <<schema, priority_vars>>

\* AdHistory::PurgeExpired(callback)
PurgeExpired(callers, retention_periods) ==
    \E now \in Nows, retention_period \in retention_periods :
        LET args == [NoArgs EXCEPT !.now = [us |-> now],
                                   !.retention_period = retention_period]
        IN  /\ CanCall(callers)
            /\ ncalls' = ncalls + 1
            /\ Submit("PurgeExpired", args,
                      <<PurgeExpiredTransaction(args.now, retention_period)>>)
            /\ delivered' = NoDelivery
            /\ UNCHANGED <<batch_size_, table, partial, saved, completions>>
            /\ migration' = NoMigration
            /\ UNCHANGED <<schema, priority_vars>>

NumberOfValid(ad_history) == Len(SelectSeq(ad_history, IsValid))

\* The engine runs one submitted transaction and invokes its callback:
\* GetCallback for the Get* calls, the ResultCallback for Save and
\* PurgeExpired.
RunTransaction ==
    \E p \in pending, outcome \in EngineOutcomes :
        LET fault == outcome[1]
            tie_order == outcome[2]
            out == RunDBTransaction(p.transaction, table, fault, tie_order)
            committed == Len(out.rows) - Len(table)
            runs == IF p.op \in GetOps THEN GetCallbackRuns(out.result)
                    ELSE <<ResultCallback(out.result)>>
        IN  /\ pending' = pending \ {p}
            /\ table' = out.rows
            /\ delivered' =
                 [op |-> p.op, call |-> p.call, args |-> p.args,
                  by_engine |-> TRUE,
                  success |-> IF p.op \in GetOps THEN FALSE
                              ELSE ResultCallback(out.result),
                  ad_history |-> IF p.op \in GetOps
                                 THEN runs[Len(runs)]
                                 ELSE [has_value |-> FALSE, value |-> <<>>],
                  result |-> out.result,
                  fault |-> fault, before |-> table]
            /\ partial' =
                 IF p.op = "Save"
                 THEN [partial EXCEPT ![p.call] =
                          IF @ + committed = NumberOfValid(p.args.ad_history)
                          THEN 0 ELSE @ + committed]
                 ELSE partial
            /\ saved' =
                 CASE p.op = "Save" /\ ResultCallback(out.result) ->
                        AfterSave(p.args.ad_history)
                   [] p.op = "PurgeExpired" /\ ResultCallback(out.result) ->
                        MoreThanSaved
                   [] OTHER -> saved
            /\ completions' = [completions EXCEPT ![p.call] = @ + Len(runs)]
            /\ UNCHANGED <<batch_size_, ncalls>>
            /\ migration' = NoMigration
            /\ UNCHANGED <<schema, priority_vars>>

\* One caller at a time: the next call is made when the previous one has
\* completed.
Next ==
    \/ Save(1, AdHistoryLists)
    \/ GetForDateRange(1, Ranges)
    \/ GetHighestRankedPlacementsForDateRange(1, Ranges)
    \/ GetForCreativeInstanceId(1, CreativeInstanceIds)
    \/ PurgeExpired(1, RetentionPeriods)
    \/ RunTransaction

Spec == Init /\ [][Next]_vars

\* Several callers: calls are made while others are in flight, and the engine
\* runs the submitted transactions in any order.
NextConcurrent ==
    \/ Save(MaxCallers, ShortLists)
    \/ GetForDateRange(MaxCallers, ShortRanges)
    \/ GetHighestRankedPlacementsForDateRange(MaxCallers, ShortRanges)
    \/ GetForCreativeInstanceId(MaxCallers, {"c1"})
    \/ PurgeExpired(MaxCallers, {2})
    \/ RunTransaction

SpecConcurrent == Init /\ [][NextConcurrent]_vars

\* One Save of a long list, to see the batches of a whole history.
NextBatches ==
    \/ ncalls = 0 /\ Save(1, LongLists)
    \/ RunTransaction

SpecBatches == Init /\ [][NextBatches]_vars

\* AdHistory::Create(mojom_transaction), called for a database that has no
\* table ad_history; the coordinator then runs the transaction.
Create ==
    \E incoming \in IncomingTransactions :
        LET mojom_transaction == CreateStatements(incoming)
            out == RunSchemaTransaction(mojom_transaction, schema, table)
        IN  /\ ~HasTable(schema, kTableName)
            /\ pending = {}
            /\ schema' = out.schema
            /\ table' = out.rows
            /\ migration' =
                 [op |-> "Create", to_version |-> 0, incoming |-> incoming,
                  transaction |-> mojom_transaction, success |-> out.success,
                  schema_before |-> schema, rows_before |-> table]
            /\ UNCHANGED <<batch_size_, pending, ncalls, partial, saved,
                           delivered, completions>>
            /\ UNCHANGED priority_vars

\* AdHistory::Migrate(mojom_transaction, to_version); the coordinator then
\* runs the transaction.
Migrate(to_versions) ==
    \E incoming \in IncomingTransactions, to_version \in to_versions :
        LET mojom_transaction == MigrateStatements(incoming, to_version)
            out == RunSchemaTransaction(mojom_transaction, schema, table)
        IN  /\ pending = {}
            /\ schema' = out.schema
            /\ table' = out.rows
            /\ migration' =
                 [op |-> "Migrate", to_version |-> to_version,
                  incoming |-> incoming, transaction |-> mojom_transaction,
                  success |-> out.success, schema_before |-> schema,
                  rows_before |-> table]
            /\ UNCHANGED <<batch_size_, pending, ncalls, partial, saved,
                           delivered, completions>>
            /\ UNCHANGED priority_vars

\* The database as a process finds it: without the table, or with the
\* table and the rows that earlier runs have stored.
InitSchema ==
    /\ batch_size_ = kDefaultBatchSize
    /\ \/ schema = NoSchema /\ table = <<>>
       \/ schema = CreatedSchema /\ table \in InitialTables
    /\ pending = {}
    /\ ncalls = 0
    /\ partial = [c \in 1..MaxCalls |-> 0]
    /\ saved = MoreThanSaved
    /\ delivered = NoDelivery
    /\ completions = [c \in 1..MaxCalls |-> 0]
    /\ migration = NoMigration
    /\ creative_ads = <<>>
    /\ buckets = <<>>
    /\ highest = <<>>
    /\ returned = {}

\* The schema coordinator creates and migrates the table; callers save
\* once the table is there.
NextSchema ==
    \/ Create
    \/ Migrate(Versions)
    \/ HasTable(schema, kTableName) /\ Save(1, ShortLists)
    \/ RunTransaction

SpecSchema == InitSchema /\ [][NextSchema]_vars

\* A caller has SortCreativeAdsIntoBucketsByPriority(creative_ads) return.
SortCreativeAdsIntoBucketsByPriorityReturns ==
    /\ "SortCreativeAdsIntoBucketsByPriority" \notin returned
    /\ buckets' = SortCreativeAdsIntoBucketsByPriority(creative_ads)
    /\ returned' = returned \cup {"SortCreativeAdsIntoBucketsByPriority"}
    /\ UNCHANGED <<creative_ads, highest>>
    /\ UNCHANGED <<history_vars, schema_vars>>

\* A caller has HighestPriorityCreativeAds(creative_ads) return.
HighestPriorityCreativeAdsReturns ==
    /\ "HighestPriorityCreativeAds" \notin returned
    /\ highest' = HighestPriorityCreativeAds(creative_ads)
    /\ returned' = returned \cup {"HighestPriorityCreativeAds"}
    /\ UNCHANGED <<creative_ads, buckets>>
    /\ UNCHANGED <<history_vars, schema_vars>>

\* The priority functions on every list of candidates.
InitPriority ==
    /\ batch_size_ = kDefaultBatchSize
    /\ table = <<>>
    /\ pending = {}
    /\ ncalls = 0
    /\ partial = [c \in 1..MaxCalls |-> 0]
    /\ saved = NothingSaved
    /\ delivered = NoDelivery
    /\ completions = [c \in 1..MaxCalls |-> 0]
    /\ schema = CreatedSchema
    /\ migration = NoMigration
    /\ creative_ads \in CreativeAdLists
    /\ buckets = <<>>
    /\ highest = <<>>
    /\ returned = {}

NextPriority ==
    \/ SortCreativeAdsIntoBucketsByPriorityReturns
    \/ HighestPriorityCreativeAdsReturns

SpecPriority == InitPriority /\ [][NextPriority]_vars

----------------------------------------------------------------------------
\* What the claims speak of.

ValidRecords(ad_history) == SelectSeq(ad_history, IsValid)

\* The rows that hold the valid records of a list, in list order.
RowsOf(ad_history) ==
    [k \in 1..Len(ValidRecords(ad_history)) |->
        BoundValues(ValidRecords(ad_history)[k])]

Occurrences(list, x) == Cardinality({k \in 1..Len(list) : list[k] = x})

\* The same records the same number of times, in any order.
SameRecords(a, b) ==
    /\ Len(a) = Len(b)
    /\ \A k \in 1..Len(a) : Occurrences(a, a[k]) = Occurrences(b, a[k])

NewestFirst(list) ==
    \A i, j \in 1..Len(list) :
        i < j => list[i].created_at.us >= list[j].created_at.us

Within(record, from_time, to_time) ==
    /\ from_time.us <= record.created_at.us
    /\ record.created_at.us <= to_time.us

\* The stored rows as records.
StoredRecords(rows) == [k \in 1..Len(rows) |-> FromMojomRow(rows[k])]

\* The call just completed is a Get* call of this name that delivered a list.
Delivered(op) == delivered.op = op /\ delivered.ad_history.has_value

\* The one list saved since the table was empty, when the completed call is
\* a GetForDateRange that spans it.
SavedOnceAndSpanned ==
    /\ Delivered("GetForDateRange")
    /\ saved.history = "once"
    /\ \A k \in 1..Len(saved.list) :
           Within(saved.list[k], delivered.args.from_time,
                  delivered.args.to_time)

\* C1: from an empty table, a successful Save(L) followed by a
\* GetForDateRange whose range holds every created_at of L delivers exactly
\* the valid records of L, as a multiset, newest first.
C1_SaveThenGetForDateRange ==
    SavedOnceAndSpanned =>
        /\ SameRecords(delivered.ad_history.value,
                       ValidRecords(saved.list))
        /\ NewestFirst(delivered.ad_history.value)

\* C1 happens: a list of two valid records and an invalid one came back as
\* its two valid records.
C1_Witness ==
    /\ SavedOnceAndSpanned
    /\ Len(saved.list) > Len(ValidRecords(saved.list))
    /\ Len(delivered.ad_history.value) >= 1

\* The Save transactions in the engine's hands belong to different calls.
OneTransactionPerSave ==
    \A p, q \in pending : p.op = "Save" /\ q.call = p.call => q = p

\* C2: a Save is all or nothing.  Its statements are in one transaction; a
\* Save the engine fails reports failure and leaves the rows as they were, a
\* Save that succeeds adds all its valid records at once; so in no state,
\* and to no Get*, is a Save committed in part.
C2_SaveIsAllOrNothing ==
    /\ OneTransactionPerSave
    /\ \A c \in 1..MaxCalls : partial[c] = 0
    /\ (delivered.op = "Save" /\ delivered.by_engine) =>
          /\ (delivered.result.is_null
              \/ delivered.result.result_code # "kSuccess")
                 => ~delivered.success /\ table = delivered.before
          /\ delivered.success
                 => table = delivered.before \o RowsOf(delivered.args.ad_history)

\* C2 happens: a Get* ran and delivered while a Save of two statements,
\* called before it, was still waiting, after another Save had committed.
C2_Witness ==
    /\ delivered.op \in GetOps
    /\ delivered.ad_history.has_value
    /\ Len(delivered.ad_history.value) >= 1
    /\ \E p \in pending :
          /\ p.op = "Save"
          /\ p.call < delivered.call
          /\ Len(p.transaction.statements) >= 2

\* The statements of a Save transaction are the batches of the list: as many
\* run statements as SplitVector gives batches, statement k inserting the
\* rows of batch k.
StatementsAreBatches(statements, ad_history, batch_size) ==
    LET N == Len(ad_history)
        n == (N + batch_size - 1) \div batch_size
    IN  /\ Len(statements) = n
        /\ \A k \in 1..Len(statements) :
              /\ statements[k].operation_type = "kRun"
              /\ statements[k].sql.verb = "INSERT"
              /\ statements[k].sql.values.tuples =
                    IF k < n THEN batch_size ELSE N - batch_size * (n - 1)
              /\ LET rows == InsertedRows(statements[k])
                 IN  \A j \in 1..Len(rows) :
                        rows[j] = BoundValues(ad_history[batch_size * (k - 1) + j])

\* C3: a Save of N valid records submits one transaction of ceil(N / B) run
\* statements, all of B rows but the last, whose rows in statement order are
\* the list in list order.
C3_SaveBatches ==
    /\ OneTransactionPerSave
    /\ \A p \in pending :
          (p.op = "Save" /\ ValidRecords(p.args.ad_history) = p.args.ad_history)
             => StatementsAreBatches(p.transaction.statements,
                                     p.args.ad_history, batch_size_)
    /\ (delivered.op = "Save" /\ delivered.success)
          => table = delivered.before \o RowsOf(delivered.args.ad_history)

\* C3 happens: 120 records with the default batch size are in the engine's
\* hands as statements of 50, 50 and 20 rows.
C3_Witness ==
    \E p \in pending :
        /\ p.op = "Save"
        /\ Len(p.args.ad_history) = 120
        /\ batch_size_ = kDefaultBatchSize
        /\ [k \in 1..Len(p.transaction.statements) |->
               p.transaction.statements[k].sql.values.tuples] = <<50, 50, 20>>

\* C4: invalid records never abort a Save: when the engine itself does not
\* fail, the Save succeeds and the table gains the valid records of the list.
C4_InvalidRecordsNeverAbortSave ==
    (delivered.op = "Save" /\ delivered.by_engine /\ delivered.fault = "none")
       => /\ delivered.success
          /\ table = delivered.before \o RowsOf(delivered.args.ad_history)

\* C5: in every insert statement of a Save, the tuples of placeholders are as
\* many as the valid records of its batch, the bound values twelve times as
\* many, and the bind indices 0, 1, 2, ... without a gap.
C5_PlaceholdersMatchBindings ==
    \A p \in pending :
        p.op = "Save" =>
            LET batches == SplitVector(p.args.ad_history, batch_size_)
                statements == p.transaction.statements
            IN  /\ Len(statements) = Len(batches)
                /\ \A k \in 1..Len(statements) :
                      LET row_count == Len(ValidRecords(batches[k]))
                      IN  /\ statements[k].sql.values.tuples = row_count
                          /\ statements[k].sql.values.columns = 12
                          /\ Len(statements[k].bindings) = 12 * row_count
                          /\ \A j \in 1..Len(statements[k].bindings) :
                                statements[k].bindings[j].index = j - 1

\* C5 happens: a batch with an invalid record before a valid one is bound.
C5_Witness ==
    \E p \in pending :
        /\ p.op = "Save"
        /\ Len(p.args.ad_history) >= 2
        /\ ~IsValid(p.args.ad_history[1])
        /\ IsValid(p.args.ad_history[2])
        /\ Len(p.transaction.statements) = 1
        /\ p.transaction.statements[1].sql.values.tuples = 1

\* C6: Save of the empty list runs its completion with success at once, and
\* hands nothing to the engine: no transaction of an empty list is ever
\* pending, and the rows are as they were.
C6_SaveOfNothing ==
    /\ \A p \in pending : p.op = "Save" => p.args.ad_history # <<>>
    /\ (delivered.op = "Save" /\ delivered.args.ad_history = <<>>)
          => /\ delivered.success
             /\ ~delivered.by_engine
             /\ table = delivered.before

\* C6 happens: Save of the empty list completed over a table that has rows.
C6_Witness ==
    /\ delivered.op = "Save"
    /\ delivered.args.ad_history = <<>>
    /\ delivered.success
    /\ pending = {}
    /\ table # <<>>

\* The stored valid records of a date range, in row order.
ValidWithin(rows, from_time, to_time) ==
    SelectSeq(StoredRecords(rows),
              LAMBDA record : IsValid(record)
                              /\ Within(record, from_time, to_time))

\* C7: a successful GetForDateRange(from, to) delivers exactly the stored
\* valid records with from <= created_at <= to, newest first.
C7_GetForDateRange ==
    Delivered("GetForDateRange") =>
        /\ table = delivered.before
        /\ SameRecords(delivered.ad_history.value,
                       ValidWithin(table, delivered.args.from_time,
                                   delivered.args.to_time))
        /\ NewestFirst(delivered.ad_history.value)

\* C7 happens: records created at from and at to came back, and a stored
\* valid record created just before from did not.
C7_Witness ==
    /\ Delivered("GetForDateRange")
    /\ delivered.args.from_time.us < delivered.args.to_time.us
    /\ \E k \in 1..Len(delivered.ad_history.value) :
          delivered.ad_history.value[k].created_at = delivered.args.from_time
    /\ \E k \in 1..Len(delivered.ad_history.value) :
          delivered.ad_history.value[k].created_at = delivered.args.to_time
    /\ \E k \in 1..Len(table) :
          /\ IsValid(FromMojomRow(table[k]))
          /\ table[k][1] = delivered.args.from_time.us - 1

\* The engine answered the completed call with success.
EngineSucceeded ==
    ~delivered.result.is_null /\ delivered.result.result_code = "kSuccess"

\* C8: a Get* completion receives nullopt exactly when the engine's result
\* is missing or not a success; a success without rows, or with invalid rows
\* only, gives a present, empty list.
C8_NulloptIffEngineFailed ==
    (delivered.op \in GetOps) =>
        /\ ~delivered.ad_history.has_value <=> ~EngineSucceeded
        /\ (/\ EngineSucceeded
            /\ \A k \in 1..Len(delivered.result.rows) :
                  ~IsValid(FromMojomRow(delivered.result.rows[k])))
              => /\ delivered.ad_history.has_value
                 /\ delivered.ad_history.value = <<>>

\* C8 happens: the engine succeeded without a row and the list is present.
C8_Witness ==
    /\ delivered.op \in GetOps
    /\ EngineSucceeded
    /\ delivered.result.rows = <<>>
    /\ delivered.before # <<>>
    /\ delivered.ad_history.has_value

\* C9: a list a Get* completion receives holds no invalid record: it is the
\* rows of the engine's result that decode to valid records, in the order of
\* the rows, and invalid rows do not make the call fail.
C9_NoInvalidRecordDelivered ==
    (delivered.op \in GetOps /\ EngineSucceeded) =>
        /\ delivered.ad_history.has_value
        /\ \A k \in 1..Len(delivered.ad_history.value) :
              IsValid(delivered.ad_history.value[k])
        /\ delivered.ad_history.value =
              SelectSeq(StoredRecords(delivered.result.rows), IsValid)

\* C9 happens: the engine gave an invalid row before a valid one, and the
\* valid one alone was delivered.
C9_Witness ==
    /\ delivered.op \in GetOps
    /\ EngineSucceeded
    /\ Len(delivered.result.rows) >= 2
    /\ ~IsValid(FromMojomRow(delivered.result.rows[1]))
    /\ IsValid(FromMojomRow(delivered.result.rows[2]))
    /\ Len(delivered.ad_history.value) = Len(delivered.result.rows) - 1

\* rank(click) = 1, rank(dismiss) = 2, rank(view) = 3, any other 0.
Rank(record) ==
    CASE record.confirmation_type = "kClicked" -> 1
      [] record.confirmation_type = "kDismissed" -> 2
      [] record.confirmation_type = "kViewedImpression" -> 3
      [] OTHER -> 0

\* The stored records of a date range, valid or not.
StoredWithin(rows, from_time, to_time) ==
    SelectSeq(StoredRecords(rows),
              LAMBDA record : Within(record, from_time, to_time))

\* The valid records of positive rank that no record of their placement in
\* the range outranks.
HighestRanked(rows, from_time, to_time) ==
    LET within == StoredWithin(rows, from_time, to_time)
    IN  SelectSeq(within,
                  LAMBDA record :
                      /\ IsValid(record)
                      /\ Rank(record) > 0
                      /\ \A k \in 1..Len(within) :
                            (/\ within[k].placement_id = record.placement_id
                             /\ Rank(within[k]) > 0)
                               => Rank(record) <= Rank(within[k]))

AllStoredValid == \A k \in 1..Len(table) : IsValid(FromMojomRow(table[k]))

\* C11: the list of a successful GetHighestRankedPlacementsForDateRange
\* holds one record per placement: no two of its records share a
\* placement_id, and every placement with a record of positive rank in the
\* range has a record in it.  Stated of the stores that hold valid records
\* only.
C11_OneRecordPerPlacement ==
    (Delivered("GetHighestRankedPlacementsForDateRange") /\ AllStoredValid) =>
        LET list == delivered.ad_history.value
            within == StoredWithin(table, delivered.args.from_time,
                                   delivered.args.to_time)
        IN  /\ \A i, j \in 1..Len(list) :
                  i # j => list[i].placement_id # list[j].placement_id
            /\ \A k \in 1..Len(within) :
                  Rank(within[k]) > 0 =>
                      \E i \in 1..Len(list) :
                          list[i].placement_id = within[k].placement_id

\* The time a row was created at.
CreatedAt(row) == ToTimeFromChromeTimestamp(row[1])

\* The rows PurgeExpired keeps at time now with retention period R.
Retained(rows, now, retention_period) ==
    SelectSeq(rows,
              LAMBDA row : CreatedAt(row).us > now.us - retention_period)

\* C12: a successful PurgeExpired at time now, with the retention period R
\* read at that call, leaves exactly the rows created after now - R, as
\* they were and in their order; the rows created at or before now - R are
\* deleted.
C12_PurgeExpired ==
    (delivered.op = "PurgeExpired" /\ delivered.success) =>
        table = Retained(delivered.before, delivered.args.now,
                         delivered.args.retention_period)

\* C12 happens: of rows created one tick before the cutoff, at the cutoff
\* and one tick after it, the last alone is left.
C12_Witness ==
    /\ delivered.op = "PurgeExpired"
    /\ delivered.success
    /\ LET cutoff == delivered.args.now.us - delivered.args.retention_period
       IN  /\ \A t \in {cutoff - 1, cutoff, cutoff + 1} :
                 \E k \in 1..Len(delivered.before) :
                     CreatedAt(delivered.before[k]).us = t
           /\ table # <<>>
           /\ \A k \in 1..Len(table) : CreatedAt(table[k]).us = cutoff + 1

\* a is b with some of its elements left out.
RECURSIVE IsSubsequence(_, _)
IsSubsequence(a, b) ==
    IF a = <<>> THEN TRUE
    ELSE IF b = <<>> THEN FALSE
    ELSE IF Head(a) = Head(b) THEN IsSubsequence(Tail(a), Tail(b))
    ELSE IsSubsequence(a, Tail(b))

\* C13: stored rows never change and leave the table through PurgeExpired
\* only: a step that submits a call or completes a Get* leaves the rows as
\* they are, a step that completes a Save only appends rows, and a step
\* that completes a PurgeExpired only takes rows out.
C13_StoredRecordsAreImmutable ==
    [][/\ delivered'.op \in GetOps \cup {"none"} => table' = table
       /\ delivered'.op = "Save" =>
              /\ Len(table') >= Len(table)
              /\ SubSeq(table', 1, Len(table)) = table
       /\ delivered'.op = "PurgeExpired" => IsSubsequence(table', table)]_vars

\* C13 happens: a Save has appended to rows it found, and a PurgeExpired
\* has then taken some of the rows out and left others.
C13_Witness ==
    /\ delivered.op = "PurgeExpired"
    /\ delivered.success
    /\ saved.history = "more"
    /\ table # <<>>
    /\ Len(table) < Len(delivered.before)

\* The least positive priority of a list of candidates, 0 if it has none.
SmallestPositivePriority(creative_ads_list) ==
    LET positive == {creative_ads_list[k].priority :
                        k \in 1..Len(creative_ads_list)} \cap (1..MaxPriority)
    IN  IF positive = {} THEN 0
        ELSE CHOOSE p \in positive : \A q \in positive : p <= q

\* The candidates of one priority, in the order of the list.
OfPriority(creative_ads_list, priority) ==
    SelectSeq(creative_ads_list, LAMBDA ad : ad.priority = priority)

\* C14: for candidates of whatever integer priorities,
\* HighestPriorityCreativeAds returns the candidates of the least positive
\* priority of the list, in the order of the list, and the empty list when
\* no candidate has a positive priority.
C14_HighestPriorityCreativeAds ==
    "HighestPriorityCreativeAds" \in returned =>
        highest =
            IF SmallestPositivePriority(creative_ads) = 0 THEN <<>>
            ELSE OfPriority(creative_ads,
                            SmallestPositivePriority(creative_ads))

\* The keys of a flat_map.
Keys(flat_map) == {flat_map[k].priority : k \in 1..Len(flat_map)}

\* C15: SortCreativeAdsIntoBucketsByPriority partitions its input: the
\* buckets are those of the priorities other than 0 that occur in the list,
\* in ascending order of priority, none empty, and the bucket of priority p
\* holds the candidates of priority p as often as, and in the order in
\* which, the list holds them; the list itself is as it was.
C15_BucketsPartitionTheInput ==
    "SortCreativeAdsIntoBucketsByPriority" \in returned =>
        /\ Keys(buckets) =
              {creative_ads[k].priority : k \in 1..Len(creative_ads)} \ {0}
        /\ \A i, j \in 1..Len(buckets) :
              i < j => buckets[i].priority < buckets[j].priority
        /\ \A k \in 1..Len(buckets) :
              /\ buckets[k].creative_ads # <<>>
              /\ buckets[k].creative_ads =
                    OfPriority(creative_ads, buckets[k].priority)

\* C15 happens: priorities 0, 0, 2, 2, 1 and a second candidate of a
\* priority already seen give the bucket of 1 before the bucket of 2.
C15_Witness ==
    /\ "SortCreativeAdsIntoBucketsByPriority" \in returned
    /\ Len(creative_ads) = 5
    /\ [k \in 1..5 |-> creative_ads[k].priority] = <<0, 2, 1, 2, 1>>
    /\ creative_ads[3].creative_instance_id # creative_ads[5].creative_instance_id
    /\ Len(buckets) = 2
    /\ Len(buckets[1].creative_ads) = 2

\* The lifecycle state of table ad_history: absent, or present with its
\* columns and indexes.
TableState(db_schema) ==
    [tables |-> {t \in db_schema.tables : t.name = kTableName},
     indexes |-> {i \in db_schema.indexes : i.table_name = kTableName}]

\* C16: Migrate to a version other than 42 appends no statement to the
\* transaction it is given, leaves the table absent or present as it was,
\* with its rows, and is no error: the transaction runs as it would have.
C16_UnknownVersionIsNoOp ==
    (migration.op = "Migrate" /\ migration.to_version # 42) =>
        /\ migration.transaction = migration.incoming
        /\ migration.success
        /\ TableState(schema) = TableState(migration.schema_before)
        /\ table = migration.rows_before

\* C16 happens: Migrate to version 43 was given a transaction that held a
\* statement, on a table with rows.
C16_Witness ==
    /\ migration.op = "Migrate"
    /\ migration.to_version = 43
    /\ migration.incoming.statements # <<>>
    /\ HasTable(schema, kTableName)
    /\ table # <<>>

\* C17: Migrate(42) on a table that is present at version 42 succeeds and
\* leaves the schema and the rows as they were.
C17_MigrateReplayIsIdempotent ==
    (/\ migration.op = "Migrate"
     /\ migration.to_version = 42
     /\ HasTable(migration.schema_before, kTableName)) =>
        /\ migration.success
        /\ schema = migration.schema_before
        /\ table = migration.rows_before

\* The records of one placement, in their order.
EventsOf(records, placement_id) ==
    SelectSeq(records, LAMBDA record : record.placement_id = placement_id)

Placements(records) == {records[k].placement_id : k \in 1..Len(records)}

\* Events as candidates: the priority of an event is the rank of its
\* confirmation type.
AsCandidates(records) ==
    [k \in 1..Len(records) |->
        [creative_ad |-> records[k], priority |-> Rank(records[k])]]

Elements(list) == {list[k] : k \in 1..Len(list)}

InFlight == {p.call : p \in pending}

\* A call completed in the step that made it: a Save of the empty list.
CompletesAtOnce ==
    /\ delivered'.op = "Save"
    /\ ~delivered'.by_engine
    /\ delivered'.args.ad_history = <<>>

\* C19: every call runs its completion exactly once.  A call whose
\* transaction the engine holds has not run it, a call the engine has
\* answered, with success or failure, and a Save of the empty list have run
\* it once, and no call runs it twice.  A call other than a Save of the
\* empty list submits exactly one transaction, and the transaction of a Get*
\* holds exactly one statement, of type kStep, declaring 12 column types.
C19_CompletionExactlyOnce ==
    /\ [](/\ \A c \in 1..MaxCalls :
              completions[c] =
                  IF c <= ncalls /\ c \notin InFlight THEN 1 ELSE 0
          /\ \A p, q \in pending : p.call = q.call => p = q
          /\ \A p \in pending :
                p.op \in GetOps =>
                    /\ Len(p.transaction.statements) = 1
                    /\ p.transaction.statements[1].operation_type = "kStep"
                    /\ Len(p.transaction.statements[1].bind_column_types)
                          = kColumnCount)
    /\ [][ncalls' = ncalls + 1 =>
              IF CompletesAtOnce THEN pending' = pending
              ELSE /\ Cardinality(pending' \ pending) = 1
                   /\ pending \subseteq pending']_vars

\* C19 happens: a Get* that the engine failed has run its completion once,
\* with nullopt, after another call had completed and while a third is in
\* the engine's hands.
C19_Witness ==
    /\ delivered.op \in GetOps
    /\ delivered.by_engine
    /\ ~EngineSucceeded
    /\ ~delivered.ad_history.has_value
    /\ completions[delivered.call] = 1
    /\ \E c \in 1..ncalls :
          c # delivered.call /\ c \notin InFlight /\ completions[c] = 1
    /\ InFlight # {}

====
